---- MODULE Spec2Model ----
(***************************************************************************)
(* Model of core/bin/zksync_api/src/api_server/rest/v02/error.rs:          *)
(* the ErrorCode registry, the Error response object, the ApiError trait   *)
(* with its blanket conversion into Error, the built-in error kinds and    *)
(* the ApiError implementations for SubmitError and PriceError, together   *)
(* with the serde representation of the Error object.                      *)
(*                                                                         *)
(* A behaviour follows one error kind value at a time: it is constructed,  *)
(* converted into an Error object, serialized, possibly read back, and     *)
(* dropped; the previously handled value and object are remembered so that *)
(* two conversions can be compared.                                        *)
(***************************************************************************)
EXTENDS Integers, Sequences, FiniteSets, TLC

(***************************************************************************)
(* Bounds of the model.                                                    *)
(***************************************************************************)
\* longest generated text carried by an error kind value
MaxTextLen == 2

Alphabet == {"a"}

RECURSIVE Strs(_)
Strs(n) == IF n = 0 THEN {""}
           ELSE LET S == Strs(n - 1) IN S \cup {s \o c : s \in S, c \in Alphabet}

\* the displayable texts handed to the constructors
Texts == Strs(MaxTextLen) \cup {"disk full", "timeout"}

(***************************************************************************)
(* enum ErrorCode, #[repr(u16)]                                            *)
(***************************************************************************)
ErrorCode ==
    { "UnreacheableError", "CoreApiError", "TokenZeroPriceError",
      "InvalidCurrency", "InvalidBlockPosition", "InvalidAccountIdOrAddress",
      "AccountNotFound", "TransactionNotFound", "StorageError",
      "TokenNotFound", "ExternalApiError", "InternalError",
      "AccountCloseDisabled", "InvalidParams", "UnsupportedFastProcessing",
      "IncorrectTx", "TxAddError", "InappropriateFeeToken",
      "CommunicationCoreServer", "Other" }

U16 == 65536

\* a mistyped literal: the catch-all loses a digit
ErrorCodeRepr_Mistyped(c) ==
    CASE c = "UnreacheableError"         -> 0
      [] c = "CoreApiError"              -> 100
      [] c = "TokenZeroPriceError"       -> 200
      [] c = "InvalidCurrency"           -> 201
      [] c = "InvalidBlockPosition"      -> 202
      [] c = "InvalidAccountIdOrAddress" -> 203
      [] c = "AccountNotFound"           -> 204
      [] c = "TransactionNotFound"       -> 205
      [] c = "StorageError"              -> 300
      [] c = "TokenNotFound"             -> 500
      [] c = "ExternalApiError"          -> 501
      [] c = "InternalError"             -> 600
      [] c = "AccountCloseDisabled"      -> 601
      [] c = "InvalidParams"             -> 602
      [] c = "UnsupportedFastProcessing" -> 603
      [] c = "IncorrectTx"               -> 604
      [] c = "TxAddError"                -> 605
      [] c = "InappropriateFeeToken"     -> 606
      [] c = "CommunicationCoreServer"   -> 607
      [] c = "Other"                     -> 6000 % U16

\* a renumbering slip: TransactionNotFound takes the value of AccountNotFound
ErrorCodeRepr_Renumbered(c) ==
    CASE c = "UnreacheableError"         -> 0
      [] c = "CoreApiError"              -> 100
      [] c = "TokenZeroPriceError"       -> 200
      [] c = "InvalidCurrency"           -> 201
      [] c = "InvalidBlockPosition"      -> 202
      [] c = "InvalidAccountIdOrAddress" -> 203
      [] c = "AccountNotFound"           -> 204
      [] c = "TransactionNotFound"       -> 204
      [] c = "StorageError"              -> 300
      [] c = "TokenNotFound"             -> 500
      [] c = "ExternalApiError"          -> 501
      [] c = "InternalError"             -> 600
      [] c = "AccountCloseDisabled"      -> 601
      [] c = "InvalidParams"             -> 602
      [] c = "UnsupportedFastProcessing" -> 603
      [] c = "IncorrectTx"               -> 604
      [] c = "TxAddError"                -> 605
      [] c = "InappropriateFeeToken"     -> 606
      [] c = "CommunicationCoreServer"   -> 607
      [] c = "Other"                     -> 60000 % U16

\* the discriminant of a member, as the u16 the enum is represented by
ErrorCodeRepr(c) ==
    CASE c = "UnreacheableError"         -> 0
      [] c = "CoreApiError"              -> 100
      [] c = "TokenZeroPriceError"       -> 200
      [] c = "InvalidCurrency"           -> 201
      [] c = "InvalidBlockPosition"      -> 202
      [] c = "InvalidAccountIdOrAddress" -> 203
      [] c = "AccountNotFound"           -> 204
      [] c = "TransactionNotFound"       -> 205
      [] c = "StorageError"              -> 300
      [] c = "TokenNotFound"             -> 500
      [] c = "ExternalApiError"          -> 501
      [] c = "InternalError"             -> 600
      [] c = "AccountCloseDisabled"      -> 601
      [] c = "InvalidParams"             -> 602
      [] c = "UnsupportedFastProcessing" -> 603
      [] c = "IncorrectTx"               -> 604
      [] c = "TxAddError"                -> 605
      [] c = "InappropriateFeeToken"     -> 606
      [] c = "CommunicationCoreServer"   -> 607
      [] c = "Other"                     -> 60000 % U16

(***************************************************************************)
(* The error kind values.  A value is a record of its kind, its variant    *)
(* and the text it carries ("" where the kind or variant carries none).    *)
(***************************************************************************)
NoValue == [kind |-> "None", variant |-> "", text |-> ""]

\* pub struct UnreachableError;
UnreachableError == [kind |-> "UnreachableError", variant |-> "", text |-> ""]

\* pub enum InvalidDataError
InvalidDataErrorVariants ==
    { "TokenZeroPriceError", "InvalidBlockPosition", "InvalidAccountIdOrAddress",
      "AccountNotFound", "InvalidCurrency", "TransactionNotFound" }

InvalidDataError(v) == [kind |-> "InvalidDataError", variant |-> v, text |-> ""]

\* the variants of tx_sender::SubmitError, as matched by its ApiError impl
SubmitErrorVariants ==
    { "AccountCloseDisabled", "InvalidParams", "UnsupportedFastProcessing",
      "IncorrectTx", "TxAdd", "InappropriateFeeToken",
      "CommunicationCoreServer", "Internal", "Other" }

\* the variants of fee_ticker::PriceError, as matched by its ApiError impl
PriceErrorVariants == { "TokenNotFound", "ApiError", "DBError" }

\* a SubmitError value; t is the description its Display impl renders
SubmitError(v, t) == [kind |-> "SubmitError", variant |-> v, text |-> t]

\* a PriceError value; t is the description its Display impl renders
PriceError(v, t) == [kind |-> "PriceError", variant |-> v, text |-> t]

\* Formatter::write_str on a formatter whose buffer holds buf
write_str(buf, s) == buf \o s

\* a constructor that drops the title it was given
StorageErrorNew_Dropped(title) ==
    [kind |-> "StorageError", variant |-> "", text |-> ""]

\* StorageError::new: Self(title.to_string())
StorageErrorNew(title) ==
    [kind |-> "StorageError", variant |-> "", text |-> write_str("", title)]

\* CoreApiError::new: Self(title.to_string())
CoreApiErrorNew(title) ==
    [kind |-> "CoreApiError", variant |-> "", text |-> write_str("", title)]

ErrorKindValues ==
    {UnreachableError}
    \cup {StorageErrorNew(t) : t \in Texts}
    \cup {CoreApiErrorNew(t) : t \in Texts}
    \cup {InvalidDataError(v) : v \in InvalidDataErrorVariants}
    \cup {SubmitError(v, t) : v \in SubmitErrorVariants, t \in Texts}
    \cup {PriceError(v, t) : v \in PriceErrorVariants, t \in Texts}

(***************************************************************************)
(* Display                                                                 *)
(***************************************************************************)
\* impl Display for UnreachableError
UnreachableErrorFmt(f) ==
    write_str(f, "Unreachable error; you should never see this message, please contact us at https://github.com/matter-labs/zksync with a report")

\* a message templated from something other than the variant
InvalidDataErrorFmt_Swapped(v, f) ==
    CASE v = "TokenZeroPriceError" ->
            write_str(f, "Cannot show price in zero price token")
      [] v = "InvalidBlockPosition" ->
            write_str(f, "Cannot parse block position. There are only block_number, last_committed, last_finalized options")
      [] v = "InvalidAccountIdOrAddress" ->
            write_str(f, "Cannot parse account id or address")
      [] v = "AccountNotFound" ->
            write_str(f, "Account is not found")
      [] v = "InvalidCurrency" ->
            write_str(f, "Cannot parse currency. There are only token_id, usd options")
      [] v = "TransactionNotFound" ->
            write_str(f, "Account is not found")

\* #[derive(Error)] on InvalidDataError: the #[error("...")] strings
InvalidDataErrorFmt(v, f) ==
    CASE v = "TokenZeroPriceError" ->
            write_str(f, "Cannot show price in zero price token")
      [] v = "InvalidBlockPosition" ->
            write_str(f, "Cannot parse block position. There are only block_number, last_committed, last_finalized options")
      [] v = "InvalidAccountIdOrAddress" ->
            write_str(f, "Cannot parse account id or address")
      [] v = "AccountNotFound" ->
            write_str(f, "Account is not found")
      [] v = "InvalidCurrency" ->
            write_str(f, "Cannot parse currency. There are only token_id, usd options")
      [] v = "TransactionNotFound" ->
            write_str(f, "Transaction is not found")

\* impl Display for StorageError: f.write_str(&self.0)
StorageErrorFmt(t, f) == write_str(f, t.text)

\* impl Display for CoreApiError: f.write_str(&self.0)
CoreApiErrorFmt(t, f) == write_str(f, t.text)

\* Display of SubmitError and PriceError, implemented by their own modules
ExternalFmt(t, f) == write_str(f, t.text)

\* ToString::to_string: Display::fmt into an empty buffer
to_string(t) ==
    CASE t.kind = "UnreachableError" -> UnreachableErrorFmt("")
      [] t.kind = "InvalidDataError" -> InvalidDataErrorFmt(t.variant, "")
      [] t.kind = "StorageError"     -> StorageErrorFmt(t, "")
      [] t.kind = "CoreApiError"     -> CoreApiErrorFmt(t, "")
      [] t.kind \in {"SubmitError", "PriceError"} -> ExternalFmt(t, "")

(***************************************************************************)
(* trait ApiError and its implementations                                  *)
(***************************************************************************)
\* a category tag copied from another implementation
error_type_Copied(t) ==
    CASE t.kind = "UnreachableError" -> "api_error"
      [] t.kind = "InvalidDataError" -> "invalid_data_error"
      [] t.kind = "StorageError"     -> "storage_error"
      [] t.kind = "CoreApiError"     -> "storage_error"
      [] t.kind = "SubmitError"      -> "submit_error"
      [] t.kind = "PriceError"       -> "submit_error"

\* fn error_type(&self) -> String, per implementation
error_type(t) ==
    CASE t.kind = "UnreachableError" -> "api_error"
      [] t.kind = "InvalidDataError" -> "invalid_data_error"
      [] t.kind = "StorageError"     -> "storage_error"
      [] t.kind = "CoreApiError"     -> "core_api_error"
      [] t.kind = "SubmitError"      -> "submit_error"
      [] t.kind = "PriceError"       -> "token_error"

\* impl ApiError for InvalidDataError: fn code
InvalidDataErrorCode(v) ==
    CASE v = "TokenZeroPriceError"       -> "TokenZeroPriceError"
      [] v = "InvalidBlockPosition"      -> "InvalidBlockPosition"
      [] v = "InvalidAccountIdOrAddress" -> "InvalidAccountIdOrAddress"
      [] v = "AccountNotFound"           -> "AccountNotFound"
      [] v = "InvalidCurrency"           -> "InvalidCurrency"
      [] v = "TransactionNotFound"       -> "TransactionNotFound"

\* an adapter whose last arms fall through to the catch-all
SubmitErrorCode_CatchAll(v) ==
    CASE v = "AccountCloseDisabled"      -> "AccountCloseDisabled"
      [] v = "InvalidParams"             -> "InvalidParams"
      [] v = "UnsupportedFastProcessing" -> "UnsupportedFastProcessing"
      [] v = "IncorrectTx"               -> "IncorrectTx"
      [] v = "TxAdd"                     -> "TxAddError"
      [] v = "InappropriateFeeToken"     -> "InappropriateFeeToken"
      [] v = "CommunicationCoreServer"   -> "CommunicationCoreServer"
      [] v = "Internal"                  -> "Other"
      [] v = "Other"                     -> "Other"

\* impl ApiError for SubmitError: fn code
SubmitErrorCode(v) ==
    CASE v = "AccountCloseDisabled"      -> "AccountCloseDisabled"
      [] v = "InvalidParams"             -> "InvalidParams"
      [] v = "UnsupportedFastProcessing" -> "UnsupportedFastProcessing"
      [] v = "IncorrectTx"               -> "IncorrectTx"
      [] v = "TxAdd"                     -> "TxAddError"
      [] v = "InappropriateFeeToken"     -> "InappropriateFeeToken"
      [] v = "CommunicationCoreServer"   -> "CommunicationCoreServer"
      [] v = "Internal"                  -> "InternalError"
      [] v = "Other"                     -> "Other"

\* an adapter that files the database failure under the internal code
PriceErrorCode_Internal(v) ==
    CASE v = "TokenNotFound" -> "TokenNotFound"
      [] v = "ApiError"      -> "ExternalApiError"
      [] v = "DBError"       -> "InternalError"

\* impl ApiError for PriceError: fn code
PriceErrorCode(v) ==
    CASE v = "TokenNotFound" -> "TokenNotFound"
      [] v = "ApiError"      -> "ExternalApiError"
      [] v = "DBError"       -> "StorageError"

\* a sentinel code handed to a second kind
code_SentinelReused(t) ==
    CASE t.kind = "UnreachableError" -> "UnreacheableError"
      [] t.kind = "InvalidDataError" -> InvalidDataErrorCode(t.variant)
      [] t.kind = "StorageError"     -> "StorageError"
      [] t.kind = "CoreApiError"     -> "UnreacheableError"
      [] t.kind = "SubmitError"      -> SubmitErrorCode(t.variant)
      [] t.kind = "PriceError"       -> PriceErrorCode(t.variant)

\* fn code(&self) -> ErrorCode, per implementation
code(t) ==
    CASE t.kind = "UnreachableError" -> "UnreacheableError"
      [] t.kind = "InvalidDataError" -> InvalidDataErrorCode(t.variant)
      [] t.kind = "StorageError"     -> "StorageError"
      [] t.kind = "CoreApiError"     -> "CoreApiError"
      [] t.kind = "SubmitError"      -> SubmitErrorCode(t.variant)
      [] t.kind = "PriceError"       -> PriceErrorCode(t.variant)

\* an override that renders the category instead of the description
message_Overridden(t) == error_type(t)

\* the provided method: fn message(&self) -> String { self.to_string() }
message(t) == to_string(t)

(***************************************************************************)
(* struct Error and impl<T: ApiError> From<T> for Error                    *)
(***************************************************************************)
NoEnvelope == [error_type |-> "", code |-> "None", message |-> ""]

Envelopes == [error_type : STRING, code : ErrorCode, message : STRING]

From(t) ==
    [error_type |-> error_type(t), code |-> code(t), message |-> message(t)]

\* Error::storage
storage(err) == From(StorageErrorNew(err))

\* Error::core_api
core_api(err) == From(CoreApiErrorNew(err))

(***************************************************************************)
(* The serde representation                                                *)
(***************************************************************************)
JsonNull == [kind |-> "Null", n |-> 0, s |-> ""]
JsonNumber(n) == [kind |-> "Number", n |-> n, s |-> ""]
JsonString(s) == [kind |-> "String", n |-> 0, s |-> s]

NoWire == [error_type |-> JsonNull, code |-> JsonNull, message |-> JsonNull]
NoDecoded == [ok |-> FALSE, error |-> NoEnvelope]

\* #[derive(Serialize_repr)] #[repr(u16)]: the member is written as its u16
SerializeErrorCode(c) == JsonNumber(ErrorCodeRepr(c))

\* #[derive(Serialize)] on struct Error
SerializeError(e) ==
    [error_type |-> JsonString(e.error_type),
     code       |-> SerializeErrorCode(e.code),
     message    |-> JsonString(e.message)]

\* #[derive(Deserialize)] on enum ErrorCode: a unit variant is read from the
\* string that spells its name; any other JSON value is rejected
DeserializeErrorCode(j) ==
    IF j.kind = "String" /\ j.s \in ErrorCode
    THEN [ok |-> TRUE, code |-> j.s]
    ELSE [ok |-> FALSE, code |-> "None"]

\* #[derive(Deserialize)] on struct Error
DeserializeError(w) ==
    LET c == DeserializeErrorCode(w.code) IN
    IF w.error_type.kind = "String" /\ c.ok /\ w.message.kind = "String"
    THEN [ok |-> TRUE,
          error |-> [error_type |-> w.error_type.s, code |-> c.code,
                     message |-> w.message.s]]
    ELSE NoDecoded

\* documents a reader may be handed: the code written as a number, as a
\* variant name, or as a name that is no variant
WireInputs ==
    [error_type : {JsonString("storage_error")},
     code : {JsonNumber(ErrorCodeRepr(c)) : c \in ErrorCode}
            \cup {JsonString(c) : c \in ErrorCode}
            \cup {JsonString("Unknown")},
     message : {JsonString("disk full")}]

(***************************************************************************)
(* State                                                                   *)
(***************************************************************************)
VARIABLES pc, call, value, envelope, prevValue, prevEnvelope, wire, decoded

vars == <<pc, call, value, envelope, prevValue, prevEnvelope, wire, decoded>>

\* the entry point that produced the current value, with its argument
NoCall == [op |-> "none", arg |-> ""]

Init ==
    /\ pc = "idle"
    /\ call = NoCall
    /\ value = NoValue
    /\ envelope = NoEnvelope
    /\ prevValue = NoValue
    /\ prevEnvelope = NoEnvelope
    /\ wire = NoWire
    /\ decoded = NoDecoded

\* an error kind value is constructed at the point of failure
Raise(op, arg, t) ==
    /\ pc = "idle"
    /\ call' = [op |-> op, arg |-> arg]
    /\ value' = t
    /\ pc' = "raised"
    /\ UNCHANGED <<envelope, prevValue, prevEnvelope, wire, decoded>>

RaiseUnreachable == Raise("UnreachableError", "", UnreachableError)

RaiseStorage == \E t \in Texts : Raise("StorageError::new", t, StorageErrorNew(t))

RaiseCoreApi == \E t \in Texts : Raise("CoreApiError::new", t, CoreApiErrorNew(t))

RaiseInvalidData == \E v \in InvalidDataErrorVariants : Raise("InvalidDataError", "", InvalidDataError(v))

RaiseSubmit == \E v \in SubmitErrorVariants, t \in Texts : Raise("SubmitError", "", SubmitError(v, t))

RaisePrice == \E v \in PriceErrorVariants, t \in Texts : Raise("PriceError", "", PriceError(v, t))

\* Error::from(t)
Convert ==
    /\ pc = "raised"
    /\ envelope' = From(value)
    /\ pc' = "converted"
    /\ UNCHANGED <<call, value, prevValue, prevEnvelope, wire, decoded>>

\* Error::storage(err)
CallStorage ==
    \E err \in Texts :
        /\ pc = "idle"
        /\ call' = [op |-> "Error::storage", arg |-> err]
        /\ value' = StorageErrorNew(err)
        /\ envelope' = storage(err)
        /\ pc' = "converted"
        /\ UNCHANGED <<prevValue, prevEnvelope, wire, decoded>>

\* Error::core_api(err)
CallCoreApi ==
    \E err \in Texts :
        /\ pc = "idle"
        /\ call' = [op |-> "Error::core_api", arg |-> err]
        /\ value' = CoreApiErrorNew(err)
        /\ envelope' = core_api(err)
        /\ pc' = "converted"
        /\ UNCHANGED <<prevValue, prevEnvelope, wire, decoded>>

\* the Error object is serialized into the response
Serialize ==
    /\ pc = "converted"
    /\ wire' = SerializeError(envelope)
    /\ pc' = "serialized"
    /\ UNCHANGED <<call, value, envelope, prevValue, prevEnvelope, decoded>>

\* the serialized Error object is read back
Deserialize ==
    /\ pc = "serialized"
    /\ decoded' = DeserializeError(wire)
    /\ pc' = "deserialized"
    /\ UNCHANGED <<call, value, envelope, prevValue, prevEnvelope, wire>>

\* an Error object is read from a document received from elsewhere
DeserializeInput ==
    \E w \in WireInputs :
        /\ pc = "idle"
        /\ wire' = w
        /\ decoded' = DeserializeError(w)
        /\ pc' = "deserialized"
        /\ UNCHANGED <<call, value, envelope, prevValue, prevEnvelope>>

\* the value and its Error object are dropped once the response is done
Discard ==
    /\ pc \in {"converted", "serialized", "deserialized"}
    /\ prevValue' = IF value = NoValue THEN prevValue ELSE value
    /\ prevEnvelope' = IF value = NoValue THEN prevEnvelope ELSE envelope
    /\ call' = NoCall
    /\ value' = NoValue
    /\ envelope' = NoEnvelope
    /\ wire' = NoWire
    /\ decoded' = NoDecoded
    /\ pc' = "idle"

Next ==
    \/ RaiseUnreachable
    \/ RaiseStorage
    \/ RaiseCoreApi
    \/ RaiseInvalidData
    \/ RaiseSubmit
    \/ RaisePrice
    \/ Convert
    \/ CallStorage
    \/ CallCoreApi
    \/ Serialize
    \/ Deserialize
    \/ DeserializeInput
    \/ Discard

Spec == Init /\ [][Next]_vars

TypeOK ==
    /\ pc \in {"idle", "raised", "converted", "serialized", "deserialized"}
    /\ value \in ErrorKindValues \cup {NoValue}
    /\ prevValue \in ErrorKindValues \cup {NoValue}
    /\ envelope \in Envelopes \cup {NoEnvelope}
    /\ prevEnvelope \in Envelopes \cup {NoEnvelope}

\* an Error object for the current value exists
Converted == pc \in {"converted", "serialized", "deserialized"} /\ value # NoValue

\* Error objects for the current and for the previous value exist
BothConverted == Converted /\ prevValue # NoValue

(***************************************************************************)
(* Properties                                                              *)
(***************************************************************************)
\* the documented code table
DocumentedCodes ==
    { <<"UnreacheableError", 0>>, <<"CoreApiError", 100>>,
      <<"TokenZeroPriceError", 200>>, <<"InvalidCurrency", 201>>,
      <<"InvalidBlockPosition", 202>>, <<"InvalidAccountIdOrAddress", 203>>,
      <<"AccountNotFound", 204>>, <<"TransactionNotFound", 205>>,
      <<"StorageError", 300>>, <<"TokenNotFound", 500>>,
      <<"ExternalApiError", 501>>, <<"InternalError", 600>>,
      <<"AccountCloseDisabled", 601>>, <<"InvalidParams", 602>>,
      <<"UnsupportedFastProcessing", 603>>, <<"IncorrectTx", 604>>,
      <<"TxAddError", 605>>, <<"InappropriateFeeToken", 606>>,
      <<"CommunicationCoreServer", 607>>, <<"Other", 60000>> }

\* the documented bands
Bands == {0, 100} \cup (200..205) \cup {300} \cup (500..501) \cup (600..607) \cup {60000}

\* C1: every member of the ErrorCode registry has exactly the documented
\* numeric value, lies in a documented band and fits a u16; the code a
\* serialized Error object carries is the documented value of its member.
C1_RegistryValues ==
    /\ Cardinality(ErrorCode) = 20
    /\ \A c \in ErrorCode :
          /\ <<c, ErrorCodeRepr(c)>> \in DocumentedCodes
          /\ ErrorCodeRepr(c) \in Bands
          /\ ErrorCodeRepr(c) \in 0..65535
    /\ \A p \in DocumentedCodes : p[1] \in ErrorCode
    /\ pc = "serialized" =>
          /\ wire.code.kind = "Number"
          /\ <<envelope.code, wire.code.n>> \in DocumentedCodes

C1_Witness ==
    /\ pc = "serialized"
    /\ envelope.code = "Other"
    /\ wire.code = JsonNumber(60000)

\* C2 as stated: two Error objects produced by Error::from that carry the
\* same code carry the same error_type.
C2_OneCategoryPerCode ==
    (BothConverted /\ envelope.code = prevEnvelope.code)
        => envelope.error_type = prevEnvelope.error_type

\* C2 amended: two Error objects produced by Error::from that carry the same
\* code other than StorageError (300) carry the same error_type; an object
\* that carries StorageError has error_type storage_error when it comes from
\* a StorageError and token_error when it comes from PriceError::DBError.
C2_OneCategoryPerCodeExceptStorage ==
    /\ (BothConverted /\ envelope.code = prevEnvelope.code
                      /\ envelope.code # "StorageError")
          => envelope.error_type = prevEnvelope.error_type
    /\ (Converted /\ envelope.code = "StorageError")
          => \/ value.kind = "StorageError" /\ envelope.error_type = "storage_error"
             \/ value = PriceError("DBError", value.text)
                  /\ envelope.error_type = "token_error"

C2_Witness ==
    /\ BothConverted
    /\ envelope.code = "TokenNotFound"
    /\ prevEnvelope.code = "TokenNotFound"
    /\ value # prevValue

\* the documented codes of the SubmitError variants
DocumentedSubmitCodes ==
    { <<"AccountCloseDisabled", 601>>, <<"InvalidParams", 602>>,
      <<"UnsupportedFastProcessing", 603>>, <<"IncorrectTx", 604>>,
      <<"TxAdd", 605>>, <<"InappropriateFeeToken", 606>>,
      <<"CommunicationCoreServer", 607>>, <<"Internal", 600>>,
      <<"Other", 60000>> }

\* C3: every one of the nine SubmitError variants, whatever it carries,
\* converts to an Error object with error_type submit_error and the documented
\* code; no two variants share a code and only Other yields 60000.
C3_SubmitErrorCodes ==
    /\ Cardinality(SubmitErrorVariants) = 9
    /\ \A v \in SubmitErrorVariants : SubmitErrorCode(v) \in ErrorCode
    /\ (Converted /\ value.kind = "SubmitError") =>
          /\ envelope.error_type = "submit_error"
          /\ <<value.variant, ErrorCodeRepr(envelope.code)>> \in DocumentedSubmitCodes
          /\ (ErrorCodeRepr(envelope.code) = 60000 => value.variant = "Other")
    /\ (BothConverted /\ value.kind = "SubmitError" /\ prevValue.kind = "SubmitError"
                      /\ envelope.code = prevEnvelope.code)
          => value.variant = prevValue.variant

C3_Witness ==
    /\ BothConverted
    /\ value = SubmitError("Internal", "aa")
    /\ prevValue = SubmitError("Other", "")
    /\ ErrorCodeRepr(envelope.code) = 600
    /\ ErrorCodeRepr(prevEnvelope.code) = 60000

\* C4: every one of the three PriceError variants, whatever it carries,
\* converts to an Error object with error_type token_error; TokenNotFound
\* yields 500, ApiError 501 and DBError 300, the code of any StorageError.
C4_PriceErrorCodes ==
    /\ Cardinality(PriceErrorVariants) = 3
    /\ (Converted /\ value.kind = "PriceError") =>
          /\ envelope.error_type = "token_error"
          /\ <<value.variant, ErrorCodeRepr(envelope.code)>>
                \in { <<"TokenNotFound", 500>>, <<"ApiError", 501>>, <<"DBError", 300>> }
    /\ (BothConverted /\ value.kind = "PriceError" /\ value.variant = "DBError"
                      /\ prevValue.kind = "StorageError")
          => envelope.code = prevEnvelope.code
    /\ (BothConverted /\ prevValue.kind = "PriceError" /\ prevValue.variant = "DBError"
                      /\ value.kind = "StorageError")
          => envelope.code = prevEnvelope.code

C4_Witness ==
    /\ BothConverted
    /\ value = PriceError("DBError", "disk full")
    /\ prevValue = StorageErrorNew("timeout")
    /\ ErrorCodeRepr(envelope.code) = 300
    /\ envelope.error_type = "token_error"

\* the fixed messages of the InvalidDataError variants, with their codes
DocumentedInvalidData ==
    { <<"TokenZeroPriceError", 200, "Cannot show price in zero price token">>,
      <<"InvalidCurrency", 201, "Cannot parse currency. There are only token_id, usd options">>,
      <<"InvalidBlockPosition", 202, "Cannot parse block position. There are only block_number, last_committed, last_finalized options">>,
      <<"InvalidAccountIdOrAddress", 203, "Cannot parse account id or address">>,
      <<"AccountNotFound", 204, "Account is not found">>,
      <<"TransactionNotFound", 205, "Transaction is not found">> }

\* C5: every one of the six InvalidDataError variants has error_type
\* invalid_data_error and a code in 200..205; the variant-to-code mapping is
\* a bijection onto 200..205, and the message of the Error object is the
\* fixed string of the variant.
C5_InvalidDataError ==
    /\ Cardinality(InvalidDataErrorVariants) = 6
    /\ \A n \in 200..205 :
          \E v \in InvalidDataErrorVariants : ErrorCodeRepr(InvalidDataErrorCode(v)) = n
    /\ \A v1, v2 \in InvalidDataErrorVariants :
          InvalidDataErrorCode(v1) = InvalidDataErrorCode(v2) => v1 = v2
    /\ (Converted /\ value.kind = "InvalidDataError") =>
          /\ envelope.error_type = "invalid_data_error"
          /\ ErrorCodeRepr(envelope.code) \in 200..205
          /\ <<value.variant, ErrorCodeRepr(envelope.code), envelope.message>>
                \in DocumentedInvalidData
    /\ (BothConverted /\ value.kind = "InvalidDataError"
                      /\ prevValue.kind = "InvalidDataError"
                      /\ value.variant = prevValue.variant)
          => envelope.message = prevEnvelope.message

C5_Witness ==
    /\ BothConverted
    /\ value = InvalidDataError("TransactionNotFound")
    /\ prevValue = InvalidDataError("TransactionNotFound")
    /\ envelope.message = "Transaction is not found"
    /\ ErrorCodeRepr(envelope.code) = 205

\* C6: Error::storage(t) returns exactly {storage_error, 300, t} and
\* Error::core_api(t) exactly {core_api_error, 100, t}: the message is the
\* given text unchanged, and category and code do not depend on t.
C6_ConvenienceConstructors ==
    /\ (Converted /\ call.op = "Error::storage") =>
          /\ envelope = [error_type |-> "storage_error", code |-> "StorageError",
                         message |-> call.arg]
          /\ ErrorCodeRepr(envelope.code) = 300
    /\ (Converted /\ call.op = "Error::core_api") =>
          /\ envelope = [error_type |-> "core_api_error", code |-> "CoreApiError",
                         message |-> call.arg]
          /\ ErrorCodeRepr(envelope.code) = 100

C6_Witness ==
    /\ BothConverted
    /\ call = [op |-> "Error::storage", arg |-> "disk full"]
    /\ envelope.message = "disk full"
    /\ prevEnvelope = [error_type |-> "core_api_error", code |-> "CoreApiError",
                       message |-> ""]

\* C7: serializing an Error object and deserializing the result succeeds and
\* yields an Error object equal to the original.
C7_WireRoundTrip ==
    (pc = "deserialized" /\ value # NoValue /\ wire = SerializeError(envelope))
        => decoded = [ok |-> TRUE, error |-> envelope]

\* C8: no two distinct members of the ErrorCode registry share a numeric
\* code; two Error objects with different members serialize to different
\* numbers.
C8_CodesInjective ==
    /\ \A c1, c2 \in ErrorCode : ErrorCodeRepr(c1) = ErrorCodeRepr(c2) => c1 = c2
    /\ Cardinality({ErrorCodeRepr(c) : c \in ErrorCode}) = 20
    /\ (BothConverted /\ envelope.code # prevEnvelope.code)
          => SerializeErrorCode(envelope.code) # SerializeErrorCode(prevEnvelope.code)

C8_Witness ==
    /\ BothConverted
    /\ pc = "serialized"
    /\ envelope.code = "TransactionNotFound"
    /\ prevEnvelope.code = "AccountNotFound"
    /\ wire.code = JsonNumber(205)

BugReportReference == "https://github.com/matter-labs/zksync"

UnreachableMessage ==
    "Unreachable error; you should never see this message, please contact us at "
        \o BugReportReference \o " with a report"

\* C9: converting UnreachableError always yields error_type api_error, code 0
\* and the fixed message with the bug-report reference; no other kind or
\* variant yields code 0.
C9_Unreachable ==
    /\ (Converted /\ value = UnreachableError) =>
          /\ envelope = [error_type |-> "api_error", code |-> "UnreacheableError",
                         message |-> UnreachableMessage]
          /\ ErrorCodeRepr(envelope.code) = 0
    /\ (Converted /\ ErrorCodeRepr(envelope.code) = 0) => value = UnreachableError

C9_Witness ==
    /\ BothConverted
    /\ value = UnreachableError
    /\ prevValue = CoreApiErrorNew("")
    /\ ErrorCodeRepr(envelope.code) = 0
    /\ ErrorCodeRepr(prevEnvelope.code) = 100

====
